---- MODULE Spec2Model ----
(***************************************************************************)
(* Lead calling queue and outcome state machine of the sales application.  *)
(* The model follows CallingInterface (fetchCallableLeads, startCalling,   *)
(* stopCalling, handleCallLog, skipLead) and CallLogModal.handleSave in    *)
(* src/src/components/calls/CallLogModal.tsx.                              *)
(*                                                                         *)
(* Time is an integer count of half hours since local midnight of day 0:   *)
(* the half hour is the largest unit in which the three durations of the   *)
(* code (30 minutes, 09:00, 24 hours) are whole numbers.  Timestamps read  *)
(* back from the store denote the instants that were written.              *)
(***************************************************************************)
EXTENDS Integers, Sequences, FiniteSets, TLC

\* ------------------------------------------------------------------ bounds
\* clock steps and logged calls allowed to the two-agent scenario
PoolTicks == 1
PoolCalls == 1
\* clock steps and logged calls allowed to the single-agent scenario
SoloTicks == 2
SoloCalls == 1
\* clock steps and logged calls allowed to the two agents that share one lead
StaleTicks == 1
StaleCalls == 2
\* clock steps and logged calls allowed to the agent whose leads were created
\* at the same instant
TieTicks == 1
TieCalls == 1

\* ------------------------------------------------------- program constants
thirtyMinutes == 1
DayLength == 48
NineAM == 18

Agents == {"u1", "u2"}
\* the agents who log calls from the call center dashboard
DashboardUsers == {"u2"}
NoUser == "null"
NoTime == 0 - 1
NoAddress == ""
NoAlert == "none"
MeetingAlert == "Please select meeting date and assign a user for meeting setup"
CallbackAlert == "Please select a callback date"
SaveErrorAlert == "Error saving call log. Please try again."
\* the store writes of handleCallLog that can be rejected
FailingWrites == {"addDoc", "updateDoc"}

LeadStatus == {"new", "contacted", "interested", "meeting_scheduled",
               "meeting_completed", "converted", "closed"}
pickedOptions == {"interested", "not_interested", "meeting_setup", "call_later"}
notPickedOptions == {"switched_off", "no_answer", "wrong_number"}

\* steps by which the clock is advanced: 30 minutes, and 23 hours 30 minutes
TickSteps == {thirtyMinutes, DayLength - thirtyMinutes}

VARIABLES
  db,                \* the 'leads' collection: lead id -> stored lead document
  meetings,          \* the 'meetings' collection, in order of creation
  now,               \* the wall clock
  ticks,             \* how many more times the clock may be advanced
  calls,             \* how many more times Save may be pressed in the modal
  leads,             \* per agent: the queue snapshot (component state `leads`)
  currentLeadIndex,  \* per agent: the cursor into the snapshot
  isCallActive,      \* per agent: session active
  loading,           \* per agent: first fetch not finished yet
  callStartTime,     \* per agent: when the session was started, or NoTime
  callDuration,      \* per agent: the duration shown, in the unit of the clock
  lastFetch,         \* the agent whose queue the last step fetched, or NoUser
  alertShown,        \* the message of the alert() raised by the last step
  notInterested      \* history: the leads logged as picked, not_interested
                     \* while their stored status was new

vars == <<db, meetings, now, ticks, calls, leads, currentLeadIndex, isCallActive,
          loading, callStartTime, callDuration, lastFetch, alertShown, notInterested>>

\* --------------------------------------------------------- date arithmetic
\* Date.setHours(0, 0, 0, 0): local midnight of the day of t
StartOfDay(t) == t - (t % DayLength)

\* Math.floor((Date.now() - lastCommDate.getTime()) / (1000 * 60 * 60 * 24))
DaysSince(t, current) == (current - t) \div DayLength

\* the next time the clock shows 09:00, today's if it is still to come
NextNine(current) ==
  IF current % DayLength < NineAM THEN StartOfDay(current) + NineAM
  ELSE StartOfDay(current) + DayLength + NineAM

\* tomorrow.setDate(tomorrow.getDate() + 1); tomorrow.setHours(9, 0, 0, 0)
TomorrowNine(current) == StartOfDay(current) + DayLength + NineAM

\* ------------------------------------------------------ eligibility filter
LastComm(lead) == lead.communications[Len(lead.communications)]

HasLastComm(lead) == Len(lead.communications) > 0

\* a filter that forgets the leads whose meeting took place
StatusExcludedForgetsCompleted(lead) ==
  lead.status \in {"converted", "closed", "meeting_scheduled"}

StatusExcluded(lead) ==
  lead.status \in {"converted", "closed", "meeting_scheduled", "meeting_completed"}

\* a lock that still counts when it is exactly 30 minutes old
LockedByOtherInclusive(lead, uid, current) ==
  /\ lead.currentlyCallingBy # NoUser
  /\ lead.currentlyCallingBy # uid
  /\ lead.currentlyCallingAt # NoTime
  /\ current - lead.currentlyCallingAt <= thirtyMinutes

LockedByOther(lead, uid, current) ==
  /\ lead.currentlyCallingBy # NoUser
  /\ lead.currentlyCallingBy # uid
  /\ lead.currentlyCallingAt # NoTime
  /\ current - lead.currentlyCallingAt < thirtyMinutes

\* a filter that applies the one-day wait of call_later before it looks at
\* the follow-up date
CommRuleCallLaterFirst(lead, current) ==
  IF ~HasLastComm(lead) THEN TRUE
  ELSE LET lastComm == LastComm(lead)
           daysSinceLastComm == DaysSince(lastComm.createdAt, current)
       IN IF /\ ~lastComm.picked
             /\ lastComm.result \in {"switched_off", "no_answer"}
             /\ daysSinceLastComm < 1
          THEN FALSE
          ELSE IF lastComm.result \in {"not_interested", "wrong_number"}
          THEN FALSE
          ELSE IF lastComm.result = "call_later"
          THEN daysSinceLastComm >= 1
          ELSE IF lastComm.nextActionDate # NoTime
          THEN StartOfDay(lastComm.nextActionDate) <= StartOfDay(current)
          ELSE TRUE

\* a filter that takes every scheduled follow-up as due
CommRuleFollowUpAlwaysDue(lead, current) ==
  IF ~HasLastComm(lead) THEN TRUE
  ELSE LET lastComm == LastComm(lead)
           daysSinceLastComm == DaysSince(lastComm.createdAt, current)
       IN IF /\ ~lastComm.picked
             /\ lastComm.result \in {"switched_off", "no_answer"}
             /\ daysSinceLastComm < 1
          THEN FALSE
          ELSE IF lastComm.result \in {"not_interested", "wrong_number"}
          THEN FALSE
          ELSE IF lastComm.nextActionDate # NoTime
          THEN TRUE
          ELSE IF lastComm.result = "call_later"
          THEN daysSinceLastComm >= 1
          ELSE TRUE

CommRule(lead, current) ==
  IF ~HasLastComm(lead) THEN TRUE
  ELSE LET lastComm == LastComm(lead)
           daysSinceLastComm == DaysSince(lastComm.createdAt, current)
       IN IF /\ ~lastComm.picked
             /\ lastComm.result \in {"switched_off", "no_answer"}
             /\ daysSinceLastComm < 1
          THEN FALSE
          ELSE IF lastComm.result \in {"not_interested", "wrong_number"}
          THEN FALSE
          ELSE IF lastComm.nextActionDate # NoTime
          THEN StartOfDay(lastComm.nextActionDate) <= StartOfDay(current)
          ELSE IF lastComm.result = "call_later"
          THEN daysSinceLastComm >= 1
          ELSE TRUE

isCallable(lead, uid, current) ==
  IF StatusExcluded(lead) THEN FALSE
  ELSE IF LockedByOther(lead, uid, current) THEN FALSE
  ELSE CommRule(lead, current)

\* --------------------------------------------------------- priority sorter
IsFollowUp(lead) ==
  IF HasLastComm(lead) /\ LastComm(lead).nextActionDate # NoTime THEN 1 ELSE 0

IsNew(lead) == IF lead.status = "new" THEN 1 ELSE 0

\* a comparator that puts the oldest lead first
CompareOldestFirst(a, b) ==
  IF IsFollowUp(a) # IsFollowUp(b) THEN IsFollowUp(b) - IsFollowUp(a)
  ELSE IF IsNew(a) # IsNew(b) THEN IsNew(b) - IsNew(a)
  ELSE a.createdAt - b.createdAt

\* the comparator handed to Array.prototype.sort: negative puts a first
Compare(a, b) ==
  IF IsFollowUp(a) # IsFollowUp(b) THEN IsFollowUp(b) - IsFollowUp(a)
  ELSE IF IsNew(a) # IsNew(b) THEN IsNew(b) - IsNew(a)
  ELSE b.createdAt - a.createdAt

\* x is placed before the first element that the comparator puts after it
RECURSIVE InsertSorted(_, _)
InsertSorted(x, s) ==
  IF s = <<>> THEN <<x>>
  ELSE IF Compare(x, Head(s)) < 0 THEN <<x>> \o s
  ELSE <<Head(s)>> \o InsertSorted(x, Tail(s))

\* Array.prototype.sort is stable: equal elements keep their input order
RECURSIVE SortLeads(_)
SortLeads(s) ==
  IF s = <<>> THEN <<>>
  ELSE InsertSorted(s[Len(s)], SortLeads(SubSeq(s, 1, Len(s) - 1)))

\* query(..., orderBy('createdAt', 'desc')): the documents of the collection,
\* newest first, documents of equal createdAt by descending document id
RECURSIVE QueryLeads(_, _)
QueryLeads(store, ids) ==
  IF ids = {} THEN <<>>
  ELSE LET first == CHOOSE i \in ids : \A j \in ids :
                      \/ store[i].createdAt > store[j].createdAt
                      \/ store[i].createdAt = store[j].createdAt /\ i >= j
       IN <<store[first]>> \o QueryLeads(store, ids \ {first})

\* the Lead object built from a document: the fields that the session reads
\* after the fetch (the lock fields are read by the filter only)
LeadOf(document) ==
  [id |-> document.id, status |-> document.status,
   assignedTo |-> document.assignedTo,
   communications |-> document.communications,
   createdAt |-> document.createdAt, address |-> document.address]

RECURSIVE MapLeads(_)
MapLeads(s) == IF s = <<>> THEN <<>> ELSE <<LeadOf(Head(s))>> \o MapLeads(Tail(s))

RECURSIVE FilterLeads(_, _, _)
FilterLeads(s, uid, current) ==
  IF s = <<>> THEN <<>>
  ELSE IF isCallable(Head(s), uid, current)
       THEN <<Head(s)>> \o FilterLeads(Tail(s), uid, current)
       ELSE FilterLeads(Tail(s), uid, current)

fetchCallableLeads(store, uid, current) ==
  MapLeads(SortLeads(FilterLeads(QueryLeads(store, DOMAIN store), uid, current)))

\* ------------------------------------------------------------ lock manager
\* updateDoc(doc(db, 'leads', id), {currentlyCallingBy: user.id,
\*                                   currentlyCallingAt: Timestamp.now()})
Claim(store, id, uid, current) ==
  [store EXCEPT ![id].currentlyCallingBy = uid,
                ![id].currentlyCallingAt = current]

\* a release that clears the holder and leaves the time of the claim
ReleaseKeepsTime(store, id) ==
  [store EXCEPT ![id].currentlyCallingBy = NoUser]

\* a release that also returns the lead to the pool as a new lead
ReleaseAsNew(store, id) ==
  [store EXCEPT ![id].currentlyCallingBy = NoUser,
                ![id].currentlyCallingAt = NoTime,
                ![id].status = "new"]

\* updateDoc(doc(db, 'leads', id), {currentlyCallingBy: null,
\*                                   currentlyCallingAt: null})
Release(store, id) ==
  [store EXCEPT ![id].currentlyCallingBy = NoUser,
                ![id].currentlyCallingAt = NoTime]

\* ------------------------------------------------------------- the session
\* the agents that have the calling interface open
Users == DOMAIN leads

\* const currentLead = leads[currentLeadIndex]  (indices from 0 in the code)
HasCurrentLead(a) == currentLeadIndex[a] < Len(leads[a])

CurrentLead(a) == leads[a][currentLeadIndex[a] + 1]

\* the state after construction: the collection holds the leads ids, created
\* at created[l] with one of the statuses[l] and one of the owners[l] each,
\* the agents users have opened the calling interface, nothing is fetched
\* yet; t0 clock steps and c0 presses of Save lie ahead
InitStore(ids, statuses, created, owners, users, t0, c0) ==
  /\ \E st \in [ids -> LeadStatus], own \in [ids -> Agents \cup {NoUser}] :
       /\ \A l \in ids : st[l] \in statuses[l] /\ own[l] \in owners[l]
       /\ db = [l \in ids |->
                [id |-> l, status |-> st[l], assignedTo |-> own[l],
                 communications |-> <<>>, currentlyCallingBy |-> NoUser,
                 currentlyCallingAt |-> NoTime, createdAt |-> created[l],
                 updatedAt |-> created[l],
                 address |-> IF l % 2 = 1 THEN "Bole Road" ELSE NoAddress]]
  /\ meetings = <<>>
  /\ now = DayLength + NineAM
  /\ ticks = t0
  /\ calls = c0
  /\ leads = [a \in users |-> <<>>]
  /\ currentLeadIndex = [a \in users |-> 0]
  /\ isCallActive = [a \in users |-> FALSE]
  /\ loading = [a \in users |-> TRUE]
  /\ callStartTime = [a \in users |-> NoTime]
  /\ callDuration = [a \in users |-> 0]
  /\ lastFetch = NoUser
  /\ alertShown = NoAlert
  /\ notInterested = {}

\* unassigned leads created one after the other, in the order of their ids
InitWith(ids, statuses, users, t0, c0) ==
  InitStore(ids, statuses, [l \in ids |-> l], [l \in ids |-> {NoUser}], users, t0, c0)

\* the useEffect of CallingInterface after mount: the first fetchCallableLeads
FetchEffect(a) ==
  /\ loading[a]
  /\ leads' = [leads EXCEPT ![a] = fetchCallableLeads(db, a, now)]
  /\ lastFetch' = a
  /\ alertShown' = NoAlert
  /\ loading' = [loading EXCEPT ![a] = FALSE]
  /\ UNCHANGED <<db, meetings, now, ticks, calls, currentLeadIndex, isCallActive,
                 callStartTime, callDuration, notInterested>>

\* Start Calling, and the re-fetch that the useEffect runs because
\* callStartTime changed
startCalling(a) ==
  /\ ~loading[a]
  /\ ~isCallActive[a]
  /\ Len(leads[a]) # 0
  /\ db' = Claim(db, leads[a][1].id, a, now)
  /\ isCallActive' = [isCallActive EXCEPT ![a] = TRUE]
  /\ callStartTime' = [callStartTime EXCEPT ![a] = now]
  /\ callDuration' = [callDuration EXCEPT ![a] = 0]
  /\ leads' = [leads EXCEPT ![a] = fetchCallableLeads(db', a, now)]
  /\ lastFetch' = a
  /\ alertShown' = NoAlert
  /\ UNCHANGED <<meetings, now, ticks, calls, currentLeadIndex, loading, notInterested>>

\* a stop that leaves the duration on the display
stopCallingKeepsDuration(a) ==
  /\ ~loading[a]
  /\ isCallActive[a]
  /\ db' = IF HasCurrentLead(a) THEN Release(db, CurrentLead(a).id) ELSE db
  /\ isCallActive' = [isCallActive EXCEPT ![a] = FALSE]
  /\ callStartTime' = [callStartTime EXCEPT ![a] = NoTime]
  /\ leads' = [leads EXCEPT ![a] = fetchCallableLeads(db', a, now)]
  /\ lastFetch' = a
  /\ alertShown' = NoAlert
  /\ UNCHANGED <<meetings, now, ticks, calls, currentLeadIndex, loading, callDuration,
                 notInterested>>

\* Stop Calling / Finish Session, and the re-fetch of the useEffect
stopCalling(a) ==
  /\ ~loading[a]
  /\ isCallActive[a]
  /\ db' = IF HasCurrentLead(a) THEN Release(db, CurrentLead(a).id) ELSE db
  /\ isCallActive' = [isCallActive EXCEPT ![a] = FALSE]
  /\ callStartTime' = [callStartTime EXCEPT ![a] = NoTime]
  /\ callDuration' = [callDuration EXCEPT ![a] = 0]
  /\ leads' = [leads EXCEPT ![a] = fetchCallableLeads(db', a, now)]
  /\ lastFetch' = a
  /\ alertShown' = NoAlert
  /\ UNCHANGED <<meetings, now, ticks, calls, currentLeadIndex, loading, notInterested>>

\* Skip Lead (rendered for an active session that presents a lead)
skipLead(a) ==
  /\ ~loading[a]
  /\ isCallActive[a]
  /\ HasCurrentLead(a)
  /\ LET released == Release(db, CurrentLead(a).id)
         nextIndex == currentLeadIndex[a] + 1
     IN IF nextIndex < Len(leads[a])
        THEN /\ currentLeadIndex' = [currentLeadIndex EXCEPT ![a] = nextIndex]
             /\ db' = Claim(released, leads[a][nextIndex + 1].id, a, now)
        ELSE /\ currentLeadIndex' = [currentLeadIndex EXCEPT ![a] = 0]
             /\ db' = released
  /\ lastFetch' = NoUser
  /\ alertShown' = NoAlert
  /\ UNCHANGED <<meetings, now, ticks, calls, leads, isCallActive, loading,
                 callStartTime, callDuration, notInterested>>

\* CallLogModal.handleSave: the outcome built from the form
getNextActionDate(result, callbackDate, meetingDate, current) ==
  CASE result \in {"interested", "call_later"} -> callbackDate
    [] result = "meeting_setup" -> meetingDate
    [] result \in {"switched_off", "no_answer"} -> TomorrowNine(current)
    [] OTHER -> NoTime

\* a validation that does not ask for the callback date
FormValidWithoutCallbackCheck(result, callbackDate, meetingDate, assignee) ==
  ~(result = "meeting_setup" /\ (meetingDate = NoTime \/ assignee = NoUser))

\* handleSave accepts the form
FormValid(result, callbackDate, meetingDate, assignee) ==
  /\ ~(result = "meeting_setup" /\ (meetingDate = NoTime \/ assignee = NoUser))
  /\ ~(result \in {"interested", "call_later"} /\ callbackDate = NoTime)

\* Save in the call log modal with a required field missing: handleSave
\* raises an alert and returns before it calls onSave
handleSave(a, result, callbackDate, meetingDate, assignee) ==
  /\ ~loading[a]
  /\ isCallActive[a]
  /\ HasCurrentLead(a)
  /\ ~FormValid(result, callbackDate, meetingDate, assignee)
  /\ calls > 0
  /\ calls' = calls - 1
  /\ alertShown' = IF result = "meeting_setup" THEN MeetingAlert ELSE CallbackAlert
  /\ lastFetch' = NoUser
  /\ UNCHANGED <<db, meetings, now, ticks, leads, currentLeadIndex, isCallActive,
                 loading, callStartTime, callDuration, notInterested>>

\* the dates the agent enters in the datetime-local fields: the present
\* moment, tomorrow at the same time, or nothing
FormDates(current) == {NoTime, current, current + DayLength}

\* the status written for an outcome
NewStatus(picked, result) ==
  IF picked
  THEN CASE result = "interested" -> "interested"
         [] result = "meeting_setup" -> "meeting_scheduled"
         [] result = "not_interested" -> "closed"
         [] OTHER -> "contacted"
  ELSE IF result = "wrong_number" THEN "closed" ELSE "contacted"

\* the assignedTo written for an outcome (the snapshot's when it is kept)
NewAssignedTo(lead, uid, picked, result) ==
  IF picked /\ result # "not_interested" THEN uid ELSE lead.assignedTo

\* an update that stores the outcome and leaves the lock fields alone
UpdatedLeadKeepsLock(stored, currentLead, uid, picked, result, nextActionDate, current) ==
  LET communication == [picked |-> picked, result |-> result,
                        nextActionDate |-> nextActionDate,
                        createdBy |-> uid, createdAt |-> current]
      assignedTo == NewAssignedTo(currentLead, uid, picked, result)
  IN [stored EXCEPT !.communications = Append(currentLead.communications, communication),
                    !.status = NewStatus(picked, result),
                    !.updatedAt = current,
                    !.assignedTo = IF assignedTo # NoUser THEN assignedTo ELSE @]

\* the document of the lead after updateDoc(doc(db, 'leads', currentLead.id), updateData)
UpdatedLead(stored, currentLead, uid, picked, result, nextActionDate, current) ==
  LET communication == [picked |-> picked, result |-> result,
                        nextActionDate |-> nextActionDate,
                        createdBy |-> uid, createdAt |-> current]
      updatedCommunications == Append(currentLead.communications, communication)
      assignedTo == NewAssignedTo(currentLead, uid, picked, result)
  IN [stored EXCEPT !.communications = updatedCommunications,
                    !.status = NewStatus(picked, result),
                    !.currentlyCallingBy = NoUser,
                    !.currentlyCallingAt = NoTime,
                    !.updatedAt = current,
                    !.assignedTo = IF assignedTo # NoUser THEN assignedTo ELSE @]

\* a meeting that takes the address as it is, empty or not
NewMeetingWithoutPlaceholder(currentLead, uid, assignee, meetingDate, current) ==
  [leadId |-> currentLead.id, scheduledBy |-> uid, assignedTo |-> assignee,
   scheduledAt |-> meetingDate, status |-> "scheduled",
   location |-> currentLead.address, createdAt |-> current]

NewMeeting(currentLead, uid, assignee, meetingDate, current) ==
  [leadId |-> currentLead.id, scheduledBy |-> uid, assignedTo |-> assignee,
   scheduledAt |-> meetingDate, status |-> "scheduled",
   location |-> IF currentLead.address # NoAddress THEN currentLead.address
                ELSE "To be determined",
   createdAt |-> current]

\* Save in the call log modal of the presented lead: handleSave, then handleCallLog
handleCallLog(a, picked, result, callbackDate, meetingDate, assignee) ==
  /\ ~loading[a]
  /\ isCallActive[a]
  /\ HasCurrentLead(a)
  /\ result \in (IF picked THEN pickedOptions ELSE notPickedOptions)
  /\ FormValid(result, callbackDate, meetingDate, assignee)
  /\ calls > 0
  /\ calls' = calls - 1
  /\ LET currentLead == CurrentLead(a)
         nextActionDate == getNextActionDate(result, callbackDate, meetingDate, now)
         written == [db EXCEPT ![currentLead.id] =
                       UpdatedLead(@, currentLead, a, picked, result, nextActionDate, now)]
         nextIndex == currentLeadIndex[a] + 1
     IN /\ notInterested' = IF /\ picked
                                /\ result = "not_interested"
                                /\ db[currentLead.id].status = "new"
                             THEN notInterested \cup {currentLead.id}
                             ELSE notInterested
        /\ meetings' = IF result = "meeting_setup" /\ meetingDate # NoTime /\ assignee # NoUser
                        THEN Append(meetings, NewMeeting(currentLead, a, assignee, meetingDate, now))
                        ELSE meetings
        /\ IF nextIndex < Len(leads[a])
           THEN /\ currentLeadIndex' = [currentLeadIndex EXCEPT ![a] = nextIndex]
                /\ db' = Claim(written, leads[a][nextIndex + 1].id, a, now)
                /\ lastFetch' = NoUser
                /\ UNCHANGED leads
           ELSE /\ db' = written
                /\ leads' = [leads EXCEPT ![a] = fetchCallableLeads(written, a, now)]
                /\ lastFetch' = a
                /\ currentLeadIndex' = [currentLeadIndex EXCEPT ![a] = 0]
  /\ alertShown' = NoAlert
  /\ UNCHANGED <<now, ticks, isCallActive, loading, callStartTime, callDuration>>

\* a failed save that has moved the cursor before the write was rejected
handleCallLogCatchAfterAdvance(a, picked, result, callbackDate, meetingDate, assignee, failed) ==
  /\ ~loading[a]
  /\ isCallActive[a]
  /\ HasCurrentLead(a)
  /\ result \in (IF picked THEN pickedOptions ELSE notPickedOptions)
  /\ FormValid(result, callbackDate, meetingDate, assignee)
  /\ failed = "addDoc" => result = "meeting_setup"
  /\ calls > 0
  /\ calls' = calls - 1
  /\ meetings' = IF result = "meeting_setup" /\ failed = "updateDoc"
                  THEN Append(meetings, NewMeeting(CurrentLead(a), a, assignee, meetingDate, now))
                  ELSE meetings
  /\ currentLeadIndex' = [currentLeadIndex EXCEPT ![a] = (@ + 1) % Len(leads[a])]
  /\ alertShown' = SaveErrorAlert
  /\ lastFetch' = NoUser
  /\ UNCHANGED <<db, now, ticks, leads, isCallActive, loading,
                 callStartTime, callDuration, notInterested>>

\* Save in the call log modal when the store rejects a write of
\* handleCallLog: the addDoc of the meeting, or the updateDoc of the lead
\* (after the meeting, if any, was created); the catch block raises an alert
handleCallLogCatch(a, picked, result, callbackDate, meetingDate, assignee, failed) ==
  /\ ~loading[a]
  /\ isCallActive[a]
  /\ HasCurrentLead(a)
  /\ result \in (IF picked THEN pickedOptions ELSE notPickedOptions)
  /\ FormValid(result, callbackDate, meetingDate, assignee)
  /\ failed = "addDoc" => result = "meeting_setup"
  /\ calls > 0
  /\ calls' = calls - 1
  /\ meetings' = IF result = "meeting_setup" /\ failed = "updateDoc"
                  THEN Append(meetings, NewMeeting(CurrentLead(a), a, assignee, meetingDate, now))
                  ELSE meetings
  /\ alertShown' = SaveErrorAlert
  /\ lastFetch' = NoUser
  /\ UNCHANGED <<db, now, ticks, leads, currentLeadIndex, isCallActive, loading,
                 callStartTime, callDuration, notInterested>>

\* the status that the call center dashboard writes for an outcome
DashboardStatus(picked, result) ==
  IF picked
  THEN CASE result = "interested" -> "interested"
         [] result = "meeting_setup" -> "meeting_scheduled"
         [] result = "not_interested" -> "closed"
         [] OTHER -> "contacted"
  ELSE "contacted"

\* the document of the lead after the updateDoc of the dashboard
DashboardUpdatedLead(stored, selectedLead, uid, picked, result, nextActionDate, current) ==
  LET communication == [picked |-> picked, result |-> result,
                        nextActionDate |-> nextActionDate,
                        createdBy |-> uid, createdAt |-> current]
  IN [stored EXCEPT !.communications = Append(selectedLead.communications, communication),
                    !.status = DashboardStatus(picked, result),
                    !.updatedAt = current,
                    !.assignedTo = uid]

\* CallCenterDashboard: the user uid opens the dashboard (fetchLeads), presses
\* Call on the lead l (handleCall) and saves the call log modal (handleSave,
\* then handleCallLog of the dashboard).  The modal is rendered without
\* availableUsers, so that it accepts no meeting_setup.
CallCenterDashboard_handleCallLog(uid, l, picked, result, callbackDate) ==
  /\ calls > 0
  /\ result \in (IF picked THEN pickedOptions ELSE notPickedOptions)
  /\ FormValid(result, callbackDate, NoTime, NoUser)
  /\ calls' = calls - 1
  /\ LET selectedLead == LeadOf(db[l])
         nextActionDate == getNextActionDate(result, callbackDate, NoTime, now)
     IN db' = [db EXCEPT ![l] = DashboardUpdatedLead(@, selectedLead, uid, picked, result,
                                                      nextActionDate, now)]
  /\ lastFetch' = NoUser
  /\ alertShown' = NoAlert
  /\ UNCHANGED <<meetings, now, ticks, leads, currentLeadIndex, isCallActive, loading,
                 callStartTime, callDuration, notInterested>>

\* time passes; the interval timer of a started session shows the time
\* since the start
Tick(d) ==
  /\ ticks > 0
  /\ now' = now + d
  /\ callDuration' = [a \in Users |->
                       IF callStartTime[a] # NoTime THEN now' - callStartTime[a]
                       ELSE callDuration[a]]
  /\ ticks' = ticks - 1
  /\ lastFetch' = NoUser
  /\ alertShown' = NoAlert
  /\ UNCHANGED <<db, meetings, calls, leads, currentLeadIndex, isCallActive, loading,
                 callStartTime, notInterested>>

Next ==
  \/ \E a \in Users : FetchEffect(a)
  \/ \E a \in Users : startCalling(a)
  \/ \E a \in Users : stopCalling(a)
  \/ \E a \in Users : skipLead(a)
  \/ \E a \in Users, picked \in BOOLEAN, result \in pickedOptions \cup notPickedOptions :
       \E callbackDate \in (IF result \in {"interested", "call_later"}
                             THEN FormDates(now) ELSE {NoTime}),
          meetingDate \in (IF result = "meeting_setup"
                            THEN {NoTime, now + DayLength} ELSE {NoTime}),
          assignee \in (IF result = "meeting_setup"
                         THEN Agents \cup {NoUser} ELSE {NoUser}) :
         handleCallLog(a, picked, result, callbackDate, meetingDate, assignee)
  \/ \E a \in Users, result \in {"interested", "call_later", "meeting_setup"} :
       \E callbackDate \in (IF result = "meeting_setup" THEN {NoTime} ELSE FormDates(now)),
          meetingDate \in (IF result = "meeting_setup"
                            THEN {NoTime, now + DayLength} ELSE {NoTime}),
          assignee \in (IF result = "meeting_setup"
                         THEN Agents \cup {NoUser} ELSE {NoUser}) :
         handleSave(a, result, callbackDate, meetingDate, assignee)
  \/ \E a \in Users, picked \in BOOLEAN, result \in pickedOptions \cup notPickedOptions,
          failed \in FailingWrites :
       \E callbackDate \in (IF result \in {"interested", "call_later"}
                             THEN FormDates(now) ELSE {NoTime}),
          meetingDate \in (IF result = "meeting_setup"
                            THEN {NoTime, now + DayLength} ELSE {NoTime}),
          assignee \in (IF result = "meeting_setup"
                         THEN Agents \cup {NoUser} ELSE {NoUser}) :
         handleCallLogCatch(a, picked, result, callbackDate, meetingDate, assignee, failed)
  \/ \E uid \in DashboardUsers, l \in DOMAIN db, picked \in BOOLEAN,
          result \in pickedOptions \cup notPickedOptions :
       \E callbackDate \in (IF result \in {"interested", "call_later"}
                             THEN FormDates(now) ELSE {NoTime}) :
         CallCenterDashboard_handleCallLog(uid, l, picked, result, callbackDate)
  \/ \E d \in TickSteps : Tick(d)

\* two agents share a pool of two new leads
Init == InitWith({1, 2}, [l \in {1, 2} |-> {"new"}], Agents, PoolTicks, PoolCalls)

Spec == Init /\ [][Next]_vars

\* one agent works three leads: an older new lead, a lead that is new or
\* was contacted outside the calling sessions, and the newest lead in any status
SoloInit ==
  InitWith({1, 2, 3}, (1 :> {"new"}) @@ (2 :> {"new", "contacted"}) @@ (3 :> LeadStatus),
           {"u1"}, SoloTicks, SoloCalls)

SoloSpec == SoloInit /\ [][Next]_vars

\* two agents share a single new lead, unassigned or assigned to the first
\* agent when it was created
StaleInit ==
  InitStore({1}, [l \in {1} |-> {"new"}], [l \in {1} |-> l],
            [l \in {1} |-> {NoUser, "u1"}], Agents, StaleTicks, StaleCalls)

StaleSpec == StaleInit /\ [][Next]_vars

\* one agent works two leads that were created at the same instant (a batch
\* import), each new or contacted outside the calling sessions
TieInit ==
  InitStore({1, 2}, [l \in {1, 2} |-> {"new", "contacted"}],
            [l \in {1, 2} |-> 1], [l \in {1, 2} |-> {NoUser}], {"u1"},
            TieTicks, TieCalls)

TieSpec == TieInit /\ [][Next]_vars

\* ================================================================ the claims
\* the ids of the leads in the queue snapshot of agent a
QueueIds(a) == {leads[a][i].id : i \in 1..Len(leads[a])}

\* agent a is shown the lead l
Presented(a, l) ==
  isCallActive[a] /\ HasCurrentLead(a) /\ CurrentLead(a).id = l

\* the stored lead is locked by an agent other than a
LockedByAnother(l, a) == db[l].currentlyCallingBy \notin {NoUser, a}

LockAge(l) == now - db[l].currentlyCallingAt

\* the stored lead without its lock
Unlocked(l) ==
  [db[l] EXCEPT !.currentlyCallingBy = NoUser, !.currentlyCallingAt = NoTime]

ExcludedStatuses == {"converted", "closed", "meeting_scheduled", "meeting_completed"}

TerminalStatuses == {"closed", "converted"}

\* the last stored communication of l is the outcome (picked, result)
LastOutcomeIs(l, picked, results) ==
  /\ Len(db[l].communications) > 0
  /\ db[l].communications[Len(db[l].communications)].picked = picked
  /\ db[l].communications[Len(db[l].communications)].result \in results

LastStored(l) == db[l].communications[Len(db[l].communications)]

\* C1: with several agents in session on the same pool, no two active
\* sessions present the same lead at the same time.
C1_OneAgentPerLead ==
  \A a \in Users, b \in Users, l \in DOMAIN db :
    (a # b) => ~(Presented(a, l) /\ Presented(b, l))

\* C2: once the stored status of a lead is closed or converted, no step of
\* any session changes it.
C2_TerminalStatusKept ==
  [][\A l \in DOMAIN db :
       db[l].status \in TerminalStatuses => db'[l].status = db[l].status]_vars

\* C3: a new lead that was logged as picked, not_interested is in no queue
\* fetched afterwards, by any agent.
C3_NotInterestedNeverFetched ==
  \A a \in Users : lastFetch = a => QueueIds(a) \cap notInterested = {}

\* C4: every step leaves each stored communications list as it was or
\* extends it by one record at the end, and a logged outcome extends one.
C4_CommunicationsAppendOnly ==
  [][/\ \A l \in DOMAIN db :
          \/ db'[l].communications = db[l].communications
          \/ /\ Len(db'[l].communications) = Len(db[l].communications) + 1
             /\ SubSeq(db'[l].communications, 1, Len(db[l].communications))
                  = db[l].communications
     /\ (calls' # calls /\ alertShown' = NoAlert) =>
          \E l \in DOMAIN db :
            Len(db'[l].communications) = Len(db[l].communications) + 1]_vars

\* C5: a lead whose status is converted, closed, meeting_scheduled or
\* meeting_completed is not callable, whatever its lock fields, its
\* communications and the time, and is in no queue that was just fetched.
C5_ExcludedStatusNeverEligible ==
  \A a \in Users, l \in DOMAIN db :
    db[l].status \in ExcludedStatuses =>
      /\ \A by \in Agents \cup {NoUser}, at \in {NoTime, now, now - thirtyMinutes} :
           ~isCallable([db[l] EXCEPT !.currentlyCallingBy = by,
                                     !.currentlyCallingAt = at], a, now)
      /\ lastFetch = a => l \notin QueueIds(a)

\* C5 witness: a queue was just fetched while a lead with a logged
\* communication had an excluded status, and the queue holds other leads.
C5_Witness ==
  \E a \in Users, l \in DOMAIN db :
    /\ lastFetch = a
    /\ db[l].status \in ExcludedStatuses
    /\ Len(db[l].communications) > 0
    /\ Len(leads[a]) > 0
    /\ l \notin QueueIds(a)

\* C6: a queue just fetched by an agent holds no lead that another agent
\* locked less than 30 minutes ago; a lead locked by the agent itself, or by
\* another agent 30 minutes ago or more, is in the queue exactly when the
\* lead without the lock would be; and neither the passing of time nor the
\* first fetch changes a lock.
C6_FreshLockExcludes ==
  /\ [](\A a \in Users : lastFetch = a =>
          \A l \in DOMAIN db :
            /\ (LockedByAnother(l, a) /\ LockAge(l) < thirtyMinutes)
                 => l \notin QueueIds(a)
            /\ (\/ db[l].currentlyCallingBy = a
                \/ LockedByAnother(l, a) /\ LockAge(l) >= thirtyMinutes)
                 => (l \in QueueIds(a) <=> isCallable(Unlocked(l), a, now)))
  /\ [][\A l \in DOMAIN db :
          (\/ db'[l].currentlyCallingBy # db[l].currentlyCallingBy
           \/ db'[l].currentlyCallingAt # db[l].currentlyCallingAt)
            => (now' = now /\ loading' = loading)]_vars

\* C6 witness: a queue was just fetched while another agent held a fresh
\* lock on a lead that is callable but for the lock.
C6_Witness ==
  \E a \in Users, l \in DOMAIN db :
    /\ lastFetch = a
    /\ LockedByAnother(l, a)
    /\ LockAge(l) < thirtyMinutes
    /\ isCallable(Unlocked(l), a, now)
    /\ l \notin QueueIds(a)

\* C7: a lead of non-excluded status, not freshly locked by another agent,
\* whose last communication carries a nextActionDate, is callable when the
\* date of nextActionDate is today and not callable when it is tomorrow.
C7_FollowUpDueToday ==
  \A a \in Users, l \in DOMAIN db :
    (/\ db[l].status \notin ExcludedStatuses
     /\ ~(LockedByAnother(l, a) /\ LockAge(l) < thirtyMinutes)
     /\ Len(db[l].communications) > 0
     /\ LastStored(l).nextActionDate # NoTime)
    => /\ StartOfDay(LastStored(l).nextActionDate) = StartOfDay(now)
            => isCallable(db[l], a, now)
       /\ StartOfDay(LastStored(l).nextActionDate) = StartOfDay(now) + DayLength
            => ~isCallable(db[l], a, now)

\* C8: a lead whose last communication is a not-picked switched_off or
\* no_answer is callable at every moment from 09:00 of the day after that
\* communication, unless another agent holds a fresh lock.
C8_RetryNextDayAtNine ==
  \A a \in Users, l \in DOMAIN db :
    (/\ LastOutcomeIs(l, FALSE, {"switched_off", "no_answer"})
     /\ db[l].status = "contacted"
     /\ now >= StartOfDay(LastStored(l).createdAt) + DayLength + NineAM
     /\ ~(LockedByAnother(l, a) /\ LockAge(l) < thirtyMinutes))
    => isCallable(db[l], a, now)

\* C9 as claimed: a lead whose last communication is picked, call_later is
\* in no queue fetched less than 24 hours after that communication.
C9_CallLaterWaitsOneDay ==
  \A a \in Users : lastFetch = a =>
    \A l \in QueueIds(a) :
      ~(/\ LastOutcomeIs(l, TRUE, {"call_later"})
        /\ now - LastStored(l).createdAt < DayLength)

\* C9 as amended: a lead whose last communication is picked, call_later
\* with callback date D is in a queue just fetched exactly when the day of D
\* is today or earlier (the status not being excluded and no other agent
\* holding a fresh lock), however little time has passed since the call.
C9_CallLaterFollowsCallbackDate ==
  \A a \in Users : lastFetch = a =>
    \A l \in DOMAIN db :
      (/\ LastOutcomeIs(l, TRUE, {"call_later"})
       /\ LastStored(l).nextActionDate # NoTime
       /\ db[l].status \notin ExcludedStatuses
       /\ ~(LockedByAnother(l, a) /\ LockAge(l) < thirtyMinutes))
      => (l \in QueueIds(a)
            <=> StartOfDay(LastStored(l).nextActionDate) <= StartOfDay(now))

\* C9 witness: a queue just fetched holds a lead whose call_later was logged
\* less than a day ago, with a callback date of today.
C9_Witness ==
  \E a \in Users, l \in DOMAIN db :
    /\ lastFetch = a
    /\ LastOutcomeIs(l, TRUE, {"call_later"})
    /\ now - LastStored(l).createdAt < DayLength
    /\ l \in QueueIds(a)

\* a lead of a queue has a pending follow-up
PendingFollowUp(lead) ==
  /\ Len(lead.communications) > 0
  /\ lead.communications[Len(lead.communications)].nextActionDate # NoTime

\* the order of two leads of a queue, the first before the second
InQueueOrder(x, y) ==
  \/ PendingFollowUp(x) /\ ~PendingFollowUp(y)
  \/ /\ PendingFollowUp(x) = PendingFollowUp(y)
     /\ x.status = "new" /\ y.status # "new"
  \/ /\ PendingFollowUp(x) = PendingFollowUp(y)
     /\ (x.status = "new") = (y.status = "new")
     /\ x.createdAt >= y.createdAt

\* C10: any two leads of a queue are in priority order: follow-ups first,
\* then new leads, then the most recently created first.
C10_QueueInPriorityOrder ==
  \A a \in Users : \A i \in 1..Len(leads[a]), j \in 1..Len(leads[a]) :
    i < j => InQueueOrder(leads[a][i], leads[a][j])

\* C10 witness: the queue [A, B, C] of the older lead A with a follow-up,
\* the new lead B and the newest lead C, contacted and without follow-up.
C10_Witness ==
  \E a \in Users :
    /\ Len(leads[a]) = 3
    /\ PendingFollowUp(leads[a][1])
    /\ leads[a][2].status = "new" /\ ~PendingFollowUp(leads[a][2])
    /\ leads[a][3].status = "contacted" /\ ~PendingFollowUp(leads[a][3])
    /\ leads[a][1].createdAt < leads[a][2].createdAt
    /\ leads[a][2].createdAt < leads[a][3].createdAt

\* every order in which the store can return the documents of the set S
Orders(S) ==
  {s \in [1..Cardinality(S) -> S] : \A i, j \in 1..Cardinality(S) : i # j => s[i] # s[j]}

\* the stored leads that the filter lets through for agent a
EligibleLeads(a) == {db[l] : l \in {k \in DOMAIN db : isCallable(db[k], a, now)}}

AppendsOne(l) ==
  /\ Len(db'[l].communications) = Len(db[l].communications) + 1
  /\ SubSeq(db'[l].communications, 1, Len(db[l].communications)) = db[l].communications

\* C12: a submission of picked, interested with callback date D for the
\* presented lead stores status interested and the acting agent as
\* assignedTo, appends one communication with nextActionDate = D to the
\* stored list, and creates no meeting.
C12_InterestedOutcome ==
  [][\A a \in Users, D \in FormDates(now) \ {NoTime} :
       handleCallLog(a, TRUE, "interested", D, NoTime, NoUser) =>
         LET l == CurrentLead(a).id
         IN /\ db'[l].status = "interested"
            /\ db'[l].assignedTo = a
            /\ AppendsOne(l)
            /\ LastComm(db'[l]).picked /\ LastComm(db'[l]).result = "interested"
            /\ LastComm(db'[l]).nextActionDate = D
            /\ meetings' = meetings]_vars

\* the meeting created last
LastMeeting == meetings[Len(meetings)]

\* C13: a submission of picked, meeting_setup with meeting date M and
\* assignee U stores status meeting_scheduled and the acting agent as
\* assignedTo and adds exactly one meeting for the lead, with assignedTo = U,
\* scheduledAt = M, status scheduled and the address of the lead, or the
\* placeholder when there is none, as location; and only such a submission
\* changes the meetings.
C13_MeetingSetupOutcome ==
  [][/\ \A a \in Users, M \in {now + DayLength}, U \in Agents :
          handleCallLog(a, TRUE, "meeting_setup", NoTime, M, U) =>
            LET l == CurrentLead(a).id
            IN /\ db'[l].status = "meeting_scheduled"
               /\ db'[l].assignedTo = a
               /\ Len(meetings') = Len(meetings) + 1
               /\ SubSeq(meetings', 1, Len(meetings)) = meetings
               /\ meetings'[Len(meetings')].leadId = l
               /\ meetings'[Len(meetings')].assignedTo = U
               /\ meetings'[Len(meetings')].scheduledAt = M
               /\ meetings'[Len(meetings')].status = "scheduled"
               /\ meetings'[Len(meetings')].location =
                    (IF db[l].address # NoAddress THEN db[l].address
                     ELSE "To be determined")
     /\ meetings' # meetings =>
          \E a \in Users, M \in {now + DayLength}, U \in Agents :
            \/ handleCallLog(a, TRUE, "meeting_setup", NoTime, M, U)
            \/ handleCallLogCatch(a, TRUE, "meeting_setup", NoTime, M, U, "updateDoc")]_vars

\* C13 witness: a meeting was just created for a lead without address, and
\* the lead is meeting_scheduled and assigned to the agent who logged it.
C13_Witness ==
  /\ Len(meetings) > 0
  /\ LastMeeting.createdAt = now
  /\ LastMeeting.location = "To be determined"
  /\ db[LastMeeting.leadId].address = NoAddress
  /\ db[LastMeeting.leadId].status = "meeting_scheduled"
  /\ db[LastMeeting.leadId].assignedTo = LastMeeting.scheduledBy
  /\ db[LastMeeting.leadId].updatedAt = now
  /\ LastOutcomeIs(LastMeeting.leadId, TRUE, {"meeting_setup"})

C15_NotPickedKeepsProgress ==
  [][\A a \in Users, result \in {"switched_off", "no_answer"} :
       handleCallLog(a, FALSE, result, NoTime, NoTime, NoUser) =>
         LET l == CurrentLead(a).id
         IN /\ db[l].status = "interested" => db'[l].status = "interested"
            /\ db[l].status \in {"new", "contacted"} => db'[l].status = "contacted"
            /\ db'[l].assignedTo = db[l].assignedTo]_vars

\* C16: a submission of not picked, no_answer or switched_off on a lead of
\* stored status new stores status contacted and appends one communication
\* whose nextActionDate is 09:00 of the calendar day after the day of the
\* submission, at whatever time of day it is made.
C16_RetryDateTomorrowNine ==
  [][\A a \in Users, result \in {"switched_off", "no_answer"} :
       (/\ handleCallLog(a, FALSE, result, NoTime, NoTime, NoUser)
        /\ db[CurrentLead(a).id].status = "new") =>
         LET l == CurrentLead(a).id
         IN /\ db'[l].status = "contacted"
            /\ AppendsOne(l)
            /\ ~LastComm(db'[l]).picked /\ LastComm(db'[l]).result = result
            /\ LastComm(db'[l]).nextActionDate
                 = ((now \div DayLength) + 1) * DayLength + NineAM]_vars

\* C16 witness: a no_answer or switched_off was just logged before 09:00 on
\* a lead that had no communication, and its nextActionDate is 09:00 of the
\* next day.
C16_Witness ==
  \E l \in DOMAIN db :
    /\ LastOutcomeIs(l, FALSE, {"switched_off", "no_answer"})
    /\ Len(db[l].communications) = 1
    /\ db[l].status = "contacted"
    /\ LastStored(l).createdAt = now
    /\ now % DayLength < NineAM
    /\ LastStored(l).nextActionDate = now - (now % DayLength) + DayLength + NineAM

\* the communications stored for lead l
StoredComms(l) == {db[l].communications[i] : i \in 1..Len(db[l].communications)}

\* C17: a submission with a required field missing (meeting_setup without
\* meeting date or without assignee, interested or call_later without
\* callback date) changes neither the stored leads, nor the meetings, nor the
\* queue and cursor of the session; and no communication or meeting with a
\* required field missing is ever stored.
C17_RejectedBeforeMutation ==
  /\ [](/\ \A l \in DOMAIN db : \A c \in StoredComms(l) :
             c.result \in {"interested", "call_later", "meeting_setup"}
               => c.nextActionDate # NoTime
        /\ \A i \in 1..Len(meetings) :
             meetings[i].assignedTo # NoUser /\ meetings[i].scheduledAt # NoTime)
  /\ [][\A a \in Users, result \in {"interested", "call_later", "meeting_setup"} :
         \A callbackDate \in FormDates(now), meetingDate \in {NoTime, now + DayLength},
            assignee \in Agents \cup {NoUser} :
           (/\ calls' # calls
            /\ isCallActive[a] /\ HasCurrentLead(a)
            /\ \/ result = "meeting_setup" /\ (meetingDate = NoTime \/ assignee = NoUser)
               \/ result # "meeting_setup" /\ callbackDate = NoTime
            /\ handleSave(a, result, callbackDate, meetingDate, assignee))
           => /\ db' = db
              /\ meetings' = meetings
              /\ leads' = leads
              /\ currentLeadIndex' = currentLeadIndex
              /\ isCallActive' = isCallActive]_vars

\* C17 witness: a submission was just rejected while the session presents a
\* lead that it holds the lock of.
C17_Witness ==
  \E a \in Users :
    /\ alertShown \in {MeetingAlert, CallbackAlert}
    /\ isCallActive[a] /\ HasCurrentLead(a)
    /\ db[CurrentLead(a).id].currentlyCallingBy = a
    /\ db[CurrentLead(a).id].communications = <<>>
    /\ meetings = <<>>

\* C18: the two lock fields of every stored lead are both null or both set.
C18_LockFieldsTogether ==
  \A l \in DOMAIN db :
    (db[l].currentlyCallingBy = NoUser) <=> (db[l].currentlyCallingAt = NoTime)

\* the stored lead l carries no lock
LockIsNull(l) ==
  db[l].currentlyCallingBy = NoUser /\ db[l].currentlyCallingAt = NoTime

\* the stored lead l is locked by agent a since the present moment
LockedNowBy(l, a) ==
  db[l].currentlyCallingBy = a /\ db[l].currentlyCallingAt = now

\* C18 witness: the first lead of a queue was claimed and then released
\* without a logged outcome (both fields null again), and the second lead is
\* claimed (both fields set).
C18_Witness ==
  \E a \in Users :
    /\ isCallActive[a]
    /\ currentLeadIndex[a] = 1
    /\ Len(leads[a]) >= 2
    /\ db[leads[a][1].id].communications = <<>>
    /\ LockIsNull(leads[a][1].id)
    /\ LockedNowBy(leads[a][2].id, a)

\* C19: the write of a logged outcome leaves the lead it was logged for
\* without lock (both fields null), with the new communication as the last
\* of its stored list and with updatedAt at the time of the write.
C19_SubmissionReleasesLock ==
  [][\A a \in Users, picked \in BOOLEAN :
       \A result \in (IF picked THEN pickedOptions ELSE notPickedOptions) :
         \A callbackDate \in (IF result \in {"interested", "call_later"}
                               THEN FormDates(now) ELSE {NoTime}),
            meetingDate \in (IF result = "meeting_setup"
                              THEN {NoTime, now + DayLength} ELSE {NoTime}),
            assignee \in (IF result = "meeting_setup"
                           THEN Agents \cup {NoUser} ELSE {NoUser}) :
         (/\ calls' # calls
          /\ handleCallLog(a, picked, result, callbackDate, meetingDate, assignee)) =>
           LET l == CurrentLead(a).id
           IN /\ db'[l].currentlyCallingBy = NoUser
              /\ db'[l].currentlyCallingAt = NoTime
              /\ Len(db'[l].communications) > 0
              /\ LastComm(db'[l]).picked = picked
              /\ LastComm(db'[l]).result = result
              /\ LastComm(db'[l]).createdBy = a
              /\ LastComm(db'[l]).createdAt = now
              /\ db'[l].updatedAt = now]_vars

\* C19 witness: an outcome was just logged by an agent for a lead, which is
\* without lock, while the same agent already holds the next lead.
C19_Witness ==
  \E a \in Users, l \in DOMAIN db :
    /\ Len(db[l].communications) > 0
    /\ LastStored(l).createdBy = a
    /\ LastStored(l).createdAt = now
    /\ db[l].updatedAt = now
    /\ LockIsNull(l)
    /\ isCallActive[a] /\ HasCurrentLead(a)
    /\ CurrentLead(a).id # l
    /\ LockedNowBy(CurrentLead(a).id, a)

\* the stored lead without its lock, in the state after the step
UnlockedAfter(l) ==
  [db'[l] EXCEPT !.currentlyCallingBy = NoUser, !.currentlyCallingAt = NoTime]

\* C20: a skip changes nothing but lock fields and the cursor of the
\* session: status, assignedTo, communications and every other field of every
\* lead, the meetings and the queues stay; the skipped lead is left without
\* lock; and when it is not the last of the queue the cursor advances by one
\* and the next lead is claimed by the agent.
C20_SkipFrame ==
  [][\A a \in Users :
       skipLead(a) =>
         /\ \A l \in DOMAIN db : UnlockedAfter(l) = Unlocked(l)
         /\ meetings' = meetings
         /\ leads' = leads
         /\ isCallActive' = isCallActive
         /\ \A b \in Users \ {a} : currentLeadIndex'[b] = currentLeadIndex[b]
         /\ db'[CurrentLead(a).id].currentlyCallingBy = NoUser
         /\ db'[CurrentLead(a).id].currentlyCallingAt = NoTime
         /\ currentLeadIndex[a] + 1 < Len(leads[a]) =>
              /\ currentLeadIndex'[a] = currentLeadIndex[a] + 1
              /\ db'[leads[a][currentLeadIndex[a] + 2].id].currentlyCallingBy = a
              /\ db'[leads[a][currentLeadIndex[a] + 2].id].currentlyCallingAt = now]_vars

\* C20 witness: two leads were skipped one after the other: the cursor is on
\* the third lead, which the agent holds, the first two are without lock,
\* and no outcome was logged.
C20_Witness ==
  \E a \in Users :
    /\ isCallActive[a]
    /\ currentLeadIndex[a] = 2
    /\ Len(leads[a]) = 3
    /\ \A l \in DOMAIN db : db[l].communications = <<>>
    /\ LockIsNull(leads[a][1].id)
    /\ LockIsNull(leads[a][2].id)
    /\ db[leads[a][3].id].currentlyCallingBy = a
    /\ meetings = <<>>

\* C21: a skip of the last lead of the queue snapshot rebuilds the queue from
\* the store (eligibility and priority) and puts the cursor on 0, so that the
\* lead presented next is one of the leads eligible now.
C21_SkipRefreshesOnExhaustion ==
  [][\A a \in Users :
       (skipLead(a) /\ currentLeadIndex[a] + 1 >= Len(leads[a])) =>
         /\ leads'[a] = fetchCallableLeads(db', a, now)
         /\ currentLeadIndex'[a] = 0]_vars

\* the ids of the leads in the queue of agent a after the step
QueueIdsAfter(a) == {leads'[a][i].id : i \in 1..Len(leads'[a])}

C23_StopFrame ==
  [][\A a \in Users :
       (isCallActive[a] /\ ~isCallActive'[a]) =>
         /\ HasCurrentLead(a) =>
              /\ db'[CurrentLead(a).id].currentlyCallingBy = NoUser
              /\ db'[CurrentLead(a).id].currentlyCallingAt = NoTime
         /\ callStartTime'[a] = NoTime
         /\ callDuration'[a] = 0
         /\ \A l \in DOMAIN db :
              /\ db'[l].status = db[l].status
              /\ db'[l].assignedTo = db[l].assignedTo
              /\ db'[l].communications = db[l].communications
         /\ meetings' = meetings]_vars

\* C23 witness: a session that had advanced its cursor and run for some
\* time was just stopped: it is idle, its timer is reset and no stored lead
\* names the agent.
C23_Witness ==
  \E a \in Users :
    /\ ~isCallActive[a]
    /\ ~loading[a]
    /\ lastFetch = a
    /\ currentLeadIndex[a] > 0
    /\ now > DayLength + NineAM
    /\ callStartTime[a] = NoTime
    /\ callDuration[a] = 0
    /\ \A l \in DOMAIN db : db[l].currentlyCallingBy # a

\* C24: no step gives a lead that an agent Y locked less than 30 minutes ago
\* to another agent X: after the step the lock does not name X, and X is not
\* presented the lead.
C24_ClaimConflictRefused ==
  [][\A l \in DOMAIN db, x \in Users :
       (/\ LockedByAnother(l, x)
        /\ LockAge(l) < thirtyMinutes
        /\ ~Presented(x, l))
       => /\ db'[l].currentlyCallingBy # x
          /\ ~(isCallActive'[x] /\ currentLeadIndex'[x] < Len(leads'[x])
                /\ leads'[x][currentLeadIndex'[x] + 1].id = l)]_vars

\* C25: for every outcome, the status and the assignedTo that the call
\* logging of the dashboard stores are those of the outcome table, as the
\* calling session stores them: wrong_number gives closed, and a not-picked
\* outcome (and not_interested) leaves assignedTo as it was.
C25_DashboardFollowsOutcomeTable ==
  [][\A uid \in DashboardUsers, l \in DOMAIN db, picked \in BOOLEAN :
       \A result \in (IF picked THEN pickedOptions ELSE notPickedOptions),
          callbackDate \in FormDates(now) :
         CallCenterDashboard_handleCallLog(uid, l, picked, result, callbackDate) =>
           /\ db'[l].status = NewStatus(picked, result)
           /\ db'[l].assignedTo = IF picked /\ result # "not_interested" THEN uid
                                  ELSE db[l].assignedTo]_vars

\* no one but agent a has logged a call or holds a lock
OnlyAgent(a) ==
  \A l \in DOMAIN db :
    /\ db[l].currentlyCallingBy \in {NoUser, a}
    /\ \A c \in StoredComms(l) : c.createdBy = a

\* C26: while no one else writes to the store, whenever the session of an
\* agent is active and presents a lead, the stored lock of that lead names
\* the agent.
C26_ClaimPrecedesPresentation ==
  \A a \in Users, l \in DOMAIN db :
    (OnlyAgent(a) /\ Presented(a, l)) => db[l].currentlyCallingBy = a

\* C27: while no one else writes to the store, an active session with a
\* non-empty queue has its cursor inside the queue, so that the finished
\* display is shown for an empty queue only.
C27_CursorInsideQueue ==
  \A a \in Users :
    (OnlyAgent(a) /\ isCallActive[a] /\ Len(leads[a]) > 0)
      => currentLeadIndex[a] < Len(leads[a])

\* C28: when the store rejects the creation of the meeting or the update of
\* the lead of a submission, no stored lead changes (status, assignedTo,
\* communications, lock fields), the cursor and the queue stay, no other
\* lead is claimed and the session stays active.
C28_FailedSaveAbortsOnly ==
  [][alertShown' = SaveErrorAlert =>
       /\ db' = db
       /\ currentLeadIndex' = currentLeadIndex
       /\ leads' = leads
       /\ isCallActive' = isCallActive
       /\ \E a \in Users : isCallActive'[a] /\ HasCurrentLead(a)]_vars

\* C28 witness: the update of the lead was just rejected after the meeting
\* had been created: the lead of the last meeting is still presented, locked
\* by the agent and not meeting_scheduled.
C28_Witness ==
  \E a \in Users :
    /\ alertShown = SaveErrorAlert
    /\ Len(meetings) > 0
    /\ Presented(a, LastMeeting.leadId)
    /\ LastMeeting.scheduledBy = a
    /\ db[LastMeeting.leadId].currentlyCallingBy = a
    /\ db[LastMeeting.leadId].status # "meeting_scheduled"
    /\ db[LastMeeting.leadId].communications = <<>>

\* agent x releases the lead it is presented: Skip, Stop Calling or a saved
\* outcome
ReleaseStep(x) ==
  \/ stopCalling(x)
  \/ skipLead(x)
  \/ /\ calls' # calls
     /\ \E picked \in BOOLEAN :
          \E result \in (IF picked THEN pickedOptions ELSE notPickedOptions) :
            \E callbackDate \in (IF result \in {"interested", "call_later"}
                                  THEN FormDates(now) ELSE {NoTime}),
               meetingDate \in (IF result = "meeting_setup"
                                 THEN {NoTime, now + DayLength} ELSE {NoTime}),
               assignee \in (IF result = "meeting_setup"
                              THEN Agents \cup {NoUser} ELSE {NoUser}) :
              handleCallLog(x, picked, result, callbackDate, meetingDate, assignee)

\* C29: a release by agent x of the lead it is presented leaves the lock
\* fields of that lead as they are when they name another agent.
C29_ReleaseSparesForeignLock ==
  [][\A x \in Users :
       (isCallActive[x] /\ HasCurrentLead(x) /\ ReleaseStep(x)) =>
         LET l == CurrentLead(x).id
         IN db[l].currentlyCallingBy \notin {NoUser, x} =>
              /\ db'[l].currentlyCallingBy = db[l].currentlyCallingBy
              /\ db'[l].currentlyCallingAt = db[l].currentlyCallingAt]_vars

\* C30: while no one else writes to the store, an agent whose session is
\* stopped holds no lock on any stored lead.
C30_NoLockLeakedAfterStop ==
  \A a \in Users, l \in DOMAIN db :
    (OnlyAgent(a) /\ ~isCallActive[a]) => db[l].currentlyCallingBy # a

====
